---- MODULE Spec2Model ----
(***************************************************************************)
(* hookhub: a webhook relay.  The server (src/src/server.rs) captures      *)
(* public HTTP requests into envelopes, publishes them on a broadcast bus  *)
(* and pumps them to every subscribed WebSocket session.  The client       *)
(* (src/src/client.rs) holds a WebSocket to the server, reconnects on      *)
(* errors, pings, and observes SIGINT.                                     *)
(*                                                                         *)
(* The specifications share the actions below:                             *)
(*   SpecBus     the bus under load: enough publishes to overrun the       *)
(*               50-slot ring of a receiver that stopped reading;          *)
(*   SpecSession the full frame handling of the subscriber sessions;       *)
(*   SpecHttp    routing and authentication, requests of every shape;      *)
(*   SpecClient  the client connector (SpecClientFair adds the scheduling  *)
(*               fairness of the runtime and of the clock);                *)
(*   SpecCapture one public request of any version, headers or query;      *)
(*   SpecRelay   the relay end to end, from the configured URLs to the     *)
(*               request the client forwards;                              *)
(*   SpecKeepAlive  the client's pings and the session's pongs;            *)
(*   SpecWire    the frames of one connection, in both directions;         *)
(*   SpecProfiles  the client's profile store (src/src/profiles.rs);       *)
(*   SpecForward the receive loop with its history store and its forward   *)
(*               tasks;                                                    *)
(*   SpecLifecycle  the sessions from start to end, the server's stop      *)
(*               included.                                                 *)
(***************************************************************************)
EXTENDS Integers, Sequences, FiniteSets, TLC

\* ------------------------------------------------------------ bounds
MaxPublish == 52
MaxSubscribeAt == 0
MaxRequests == 2
MaxCaptures == 1
MaxPings == 1
MaxAttempts == 3
MaxForwards == 2
MaxHeaders == 3
MaxWritten == 2

\* ------------------------------------------------- program constants
Capacity == 50
RetryDelay == 5
PingInterval == 20
VERSION == "1.0.0"
ReservedPrefix == "__hookhub__"

\* ------------------------------------------------ inputs of the model
SECRET == "s3cr3t"
NoPassword == "<none>"
Sessions == {1, 2}

\* A path is its sequence of segments: "/hook" is <<"hook">>,
\* "/__hookhub__" is <<"__hookhub__">>, "/__hookhub__/" is <<"__hookhub__", "">>.
PublicPath == <<"hook">>
WsPath == <<ReservedPrefix, "">>
Paths == {PublicPath, WsPath, <<ReservedPrefix>>, <<ReservedPrefix, "x">>}
Methods == {"GET", "POST"}
Users == {VERSION, "0.0.0-dev"}
Passwords == {NoPassword, SECRET, "wrong"}

\* The rest of a request: its query (or none), its HTTP version and its
\* headers, a sequence of <<name, value>> in receipt order.  Header names are
\* held in lowercase, as the server's HeaderName holds them.
NoQuery == "<none>"
Queries == {NoQuery, "c=d"}
ActixVersions == {"HTTP/0.9", "HTTP/1.0", "HTTP/1.1", "HTTP/2.0", "HTTP/3.0"}
HeaderPairs ==
    {<<"host", "h">>, <<"origin", "o">>, <<"connection", "c">>,
     <<"x-a", "1">>, <<"x-a", "2">>, <<"x-b", "1">>}
HeaderSeqs == UNION {[1..n -> HeaderPairs] : n \in 0..MaxHeaders}

AllRequests ==
    [method : Methods, path : Paths, upgrade : BOOLEAN,
     user : Users, pass : Passwords,
     query : {NoQuery}, version : {"HTTP/1.1"}, headers : {<<>>}]

PublicPost ==
    [method |-> "POST", path |-> PublicPath, upgrade |-> FALSE,
     user |-> VERSION, pass |-> NoPassword,
     query |-> NoQuery, version |-> "HTTP/1.1", headers |-> <<>>]
ValidUpgrade ==
    [method |-> "GET", path |-> WsPath, upgrade |-> TRUE,
     user |-> VERSION, pass |-> SECRET,
     query |-> NoQuery, version |-> "HTTP/1.1", headers |-> <<>>]
BusRequests == {PublicPost, ValidUpgrade}

\* Public requests of every version, of every header sequence, and with or
\* without a query, one aspect varied at a time.
CaptureRequests ==
    {[PublicPost EXCEPT !.version = v] : v \in ActixVersions}
    \cup {[PublicPost EXCEPT !.headers = h] : h \in HeaderSeqs}
    \cup {[PublicPost EXCEPT !.path = p, !.query = q] :
             p \in {PublicPath, <<"a", "b">>}, q \in Queries}

PingPayload == "5,4,3,2,1"
AllFrames ==
    {[kind |-> "Ping", payload |-> PingPayload],
     [kind |-> "Ping", payload |-> "other"],
     [kind |-> "Pong", payload |-> PingPayload],
     [kind |-> "Text", payload |-> "t"],
     [kind |-> "Close", payload |-> ""],
     [kind |-> "Error", payload |-> ""],
     [kind |-> "End", payload |-> ""]}
BusFrames == {[kind |-> "Text", payload |-> "t"]}

\* A URL: scheme, host (with its port), the path's segments ("/" is <<"">>)
\* and the query.  A parsed ws or http URL always has a path, at least "/".
RootPath == <<"">>
Url(scheme, host, path, query) ==
    [scheme |-> scheme, host |-> host, path |-> path, query |-> query]
DefaultRemote == Url("wss", "R", RootPath, NoQuery)
DefaultLocal == Url("http", "L", RootPath, NoQuery)
RawRemotes ==
    {Url(sc, "R", p, NoQuery) : sc \in {"ws", "wss"}, p \in {RootPath, <<"x">>, WsPath}}
    \cup {Url("http", "R", RootPath, NoQuery)}
RawLocals ==
    {Url("http", "L", p, q) : p \in {RootPath, <<"x">>}, q \in {NoQuery, "y=1"}}
    \cup {Url("ftp", "L", RootPath, NoQuery)}
\* The configurations: --remote and --local, one of them varied at a time.
Configs ==
    {[remote |-> r, local |-> DefaultLocal] : r \in RawRemotes}
    \cup {[remote |-> DefaultRemote, local |-> l] : l \in RawLocals}
DefaultConfig == [remote |-> Url("wss", "R", <<"x">>, NoQuery), local |-> DefaultLocal]
NoUrls == [remote |-> Url("", "", <<>>, NoQuery), local |-> Url("", "", <<>>, NoQuery)]

NoRequest ==
    [method |-> "", path |-> <<>>, upgrade |-> FALSE, user |-> "", pass |-> "",
     query |-> NoQuery, version |-> "", headers |-> <<>>]
NoResponse ==
    [status |-> 0, body |-> <<>>, challenge |-> "", handler |-> "", session |-> 0]
NoSession ==
    [st |-> "none", subAt |-> 0, cursor |-> 0, off |-> FALSE,
     lagged |-> FALSE, out |-> <<>>, ignored |-> "", events |-> <<>>]

VARIABLES
    log,        \* every envelope given to Broadcaster::send, in order
    received,   \* the number of requests handle_receive has handled
    infoLog,    \* the delivery counts Broadcaster::send has logged, in order
    sess,       \* the subscriber sessions
    lastReq,    \* the last HTTP request the server handled
    lastResp,   \* and its response
    server      \* the HttpServer of handle(): running, stopping, stopped

serverVars == <<log, received, infoLog, sess, lastReq, lastResp, server>>

VARIABLES
    pc,         \* where handle_connect is: connecting, connected, closing,
                \* failed, waiting, stopped
    rx,         \* the shutdown receiver alive now: none, empty, signalled
    sigint,     \* SIGINT has arrived and the signal task has sent and ended
    sleepLeft,  \* seconds left of the reconnect sleep
    pingLeft,   \* seconds left to the next keep-alive tick
    waited,     \* seconds the current reconnect wait has lasted
    attempts,   \* connect attempts started (counted up to MaxAttempts)
    lastDelay,  \* seconds waited right before the latest attempt started
    result,     \* connect_and_run: none, running, Ok, or the error's kind
    exit,       \* what ended the receive loop or the wait, if anything did
    streamOpen, \* the WebSocket stream has not ended
    forwards,   \* forwards started (counted up to MaxForwards)
    config,     \* the remote and local URLs as configured
    prepared,   \* and as handle_connect prepared them
    written,    \* the frames written to the stream of this connection
                \* (the first MaxWritten of them)
    forwarded,  \* the request the latest forward built
    pending,    \* the envelope the receive loop has decoded and is storing
    tasks       \* the forward tasks spawned, in the order they were spawned
                \* (the first MaxForwards of them)

\* The profile store of the client (profiles.rs).
VARIABLES
    profiles,   \* Profiles.profiles, the mapping in memory
    file,       \* profiles.json
    outcome     \* the last operation on the store, what it returned and
                \* what the mapping and the file were before it

taskVars == <<pending, tasks>>
storeVars == <<profiles, file, outcome>>
clientVars == <<pc, rx, sigint, sleepLeft, pingLeft, waited, attempts,
                lastDelay, result, exit, streamOpen, forwards,
                config, prepared, written, forwarded, taskVars, storeVars>>
vars == <<serverVars, clientVars>>

\* ================================================================ server
\* ------------------------------------------------------ the fan-out bus
\* tokio's broadcast channel, as server.rs uses it.  `log` is the channel's
\* history and Len(log) its tail position; a receiver is a cursor into it (the
\* number of envelopes it has passed).  The ring keeps the last Capacity
\* envelopes.  A send made while no receiver exists returns Err and stores
\* nothing; a receiver created later starts at the tail either way, so such an
\* envelope takes a position in `log` that no receiver can ever read.

\* A subscribe that hands the new receiver the whole history.
SubscribeWithBackfill(l) == 0

\* Broadcaster::subscribe: the new receiver's cursor.
BroadcasterSubscribe(l) == Len(l)

\* Broadcaster::send: the channel's history after the send.
BroadcasterSend(l, env) == Append(l, env)

\* The receivers alive: a session owns its receiver until its task ends.
RxCount == Cardinality({s \in Sessions : sess[s].st \in {"running", "closing"}})

\* The channel's send, by the number of receivers alive: Err when there is
\* none, otherwise Ok with their number.
SenderSend(n) ==
    IF n = 0 THEN [kind |-> "Err", count |-> 0] ELSE [kind |-> "Ok", count |-> n]

\* Broadcaster::send's logging: `if let Ok(count)` logs "Forwarded request to
\* {count} client(s)"; on Err nothing is logged.
BroadcasterSendInfo(lines, n) ==
    LET r == SenderSend(n) IN
    IF r.kind = "Ok" THEN Append(lines, r.count) ELSE lines

\* The receiver has been lapped: the slot it wants was overwritten.
Lagging(cursor, tail) == tail - cursor > Capacity

\* A receiver that hands out the newest envelope first.
ReceiverRecvNewestFirst(cursor, tail) ==
    [kind |-> "Ok", id |-> tail, next |-> cursor + 1]

\* A ring of 5 slots instead of Capacity.
ReceiverRecvSmallRing(cursor, tail) ==
    IF tail - cursor > 5
    THEN [kind |-> "Lagged", id |-> 0, next |-> tail - 5]
    ELSE [kind |-> "Ok", id |-> cursor + 1, next |-> cursor + 1]

\* One poll of receiver.recv() that is not pending: Err(Lagged) moves the
\* cursor to the oldest envelope the ring still holds, Ok takes the next one.
ReceiverRecv(cursor, tail) ==
    IF Lagging(cursor, tail)
    THEN [kind |-> "Lagged", id |-> 0, next |-> tail - Capacity]
    ELSE [kind |-> "Ok", id |-> cursor + 1, next |-> cursor + 1]

\* ------------------------------------------------------- authentication
\* A validator that checks the version before the password.
validator_version_first(user, pass) ==
    IF user # VERSION
    THEN [result |-> "badrequest",
          body |-> <<"Server is running version", user,
                     "but you are running", VERSION>>]
    ELSE IF pass = NoPassword \/ pass # SECRET
    THEN [result |-> "unauthorized", body |-> <<>>]
    ELSE [result |-> "ok", body |-> <<>>]

\* basic_auth_validator: the password is checked first, then the version.
basic_auth_validator(user, pass) ==
    IF pass = NoPassword \/ pass # SECRET
    THEN [result |-> "unauthorized", body |-> <<>>]
    ELSE IF user # VERSION
    THEN [result |-> "badrequest",
          body |-> <<"Server is running version", user,
                     "but you are running", VERSION>>]
    ELSE [result |-> "ok", body |-> <<>>]

\* The guard of the /__hookhub__ scope: it runs the validator on the request's
\* Basic credentials and answers a rejection itself (401 with a Basic
\* challenge, 400 with the validator's text); NoResponse lets the request in.
AuthGuard(r) ==
    LET v == basic_auth_validator(r.user, r.pass) IN
    IF v.result = "unauthorized"
    THEN [status |-> 401, body |-> <<>>, challenge |-> "Basic",
          handler |-> "AuthGuard", session |-> 0]
    ELSE IF v.result = "badrequest"
    THEN [status |-> 400, body |-> v.body, challenge |-> "",
          handler |-> "AuthGuard", session |-> 0]
    ELSE NoResponse

\* -------------------------------------------------------------- routing
UnderScope(path) == Len(path) >= 1 /\ path[1] = ReservedPrefix

\* #[get("/")] inside the scope: GET, and the rest of the path is "/".
MatchesWebsocket(r) == r.method = "GET" /\ Tail(r.path) = <<"">>

\* The App of handle(): the scope takes the paths under its prefix; what the
\* scope has no resource for goes to the scope's default service, which is the
\* App's (the scope sets none of its own); everything else goes there too.
Route(r) ==
    IF UnderScope(r.path)
    THEN IF AuthGuard(r) # NoResponse THEN "AuthGuard"
         ELSE IF MatchesWebsocket(r) THEN "handle_websocket"
         ELSE "handle_receive"
    ELSE "handle_receive"

\* ------------------------------------------------------------- envelope
\* A request-target or a fullpath: the string path[?query], held as the path's
\* segments ("/a/b" is <<"a", "b">>) and the query after the first "?".
Uri(path, query) == [path |-> path, query |-> query]

\* impl From<actix_web::http::Version> for Version.
VersionFromActix(value) ==
    CASE value = "HTTP/0.9" -> 0
      [] value = "HTTP/1.0" -> 1
      [] value = "HTTP/1.1" -> 2
      [] value = "HTTP/2.0" -> 2
      [] value = "HTTP/3.0" -> 3

\* The orderings of a finite set, as sequences.
Orderings(S) ==
    {f \in [1..Cardinality(S) -> S] :
        \A i, j \in 1..Cardinality(S) : i # j => f[i] # f[j]}

RECURSIVE Flatten(_)
Flatten(ss) == IF ss = <<>> THEN <<>> ELSE Head(ss) \o Flatten(Tail(ss))

\* req.headers().iter(): the HeaderMap is a hash map from a name to the list
\* of its values.  The iteration takes the names in the map's order, which is
\* any order, and yields every name once for each of its values, those in
\* receipt order.
HeaderMapIter(hs) ==
    LET names == {hs[i][1] : i \in DOMAIN hs} IN
    {Flatten([k \in 1..Cardinality(names) |->
                 SelectSeq(hs, LAMBDA h : h[1] = order[k])]) :
        order \in Orderings(names)}

\* The three filters of handle_receive, on one iteration of the map.
FilterHeaders(it) ==
    LET f1 == SelectSeq(it, LAMBDA h : h[1] # "host")
        f2 == SelectSeq(f1, LAMBDA h : h[1] # "origin")
    IN  SelectSeq(f2, LAMBDA h : h[1] # "connection")

\* The header lists handle_receive can collect from a request.
CaptureHeaders(hs) == {FilterHeaders(it) : it \in HeaderMapIter(hs)}

\* The RequestMessage handle_receive builds (its body left out).
Envelope(r, headers) ==
    [method |-> r.method,
     fullpath |-> Uri(r.path, r.query),
     version |-> VersionFromActix(r.version),
     headers |-> headers]

\* ------------------------------------------------------------- handlers

\* A handle_receive whose send waits for room in every receiver's ring.
HandleReceiveAwaitsRoom(r) ==
    /\ \A s \in Sessions :
          sess[s].st = "running" => Len(log) - sess[s].cursor < Capacity
    /\ \E h \in CaptureHeaders(r.headers) :
          log' = BroadcasterSend(log, Envelope(r, h))
    /\ infoLog' = BroadcasterSendInfo(infoLog, RxCount)
    /\ received' = received + 1
    /\ UNCHANGED <<sess, server, clientVars>>
    /\ lastReq' = r
    /\ lastResp' = [status |-> 200, body |-> <<>>, challenge |-> "",
                    handler |-> "handle_receive", session |-> 0]

\* handle_receive: build the envelope, send it on the bus, answer 200.
HandleReceive(r) ==
    /\ \E h \in CaptureHeaders(r.headers) :
          log' = BroadcasterSend(log, Envelope(r, h))
    /\ infoLog' = BroadcasterSendInfo(infoLog, RxCount)
    /\ received' = received + 1
    /\ UNCHANGED <<sess, server, clientVars>>
    /\ lastReq' = r
    /\ lastResp' = [status |-> 200, body |-> <<>>, challenge |-> "",
                    handler |-> "handle_receive", session |-> 0]

FreeSessions == {s \in Sessions : sess[s].st = "none"}
FreeSlot == CHOOSE s \in FreeSessions : \A t \in FreeSessions : s <= t

\* handle_websocket: the handshake, "Session started", subscribe, spawn the
\* session task, answer 101.  A request that is no WebSocket upgrade fails the
\* handshake and gets the handshake's error response.
HandleWebsocket(r) ==
    IF r.upgrade
    THEN /\ FreeSessions # {}
         /\ sess' = [sess EXCEPT ![FreeSlot] =
                        [st |-> "running",
                         subAt |-> Len(log),
                         cursor |-> BroadcasterSubscribe(log),
                         off |-> FALSE, lagged |-> FALSE, out |-> <<>>,
                         ignored |-> "",
                         events |-> <<"Session started">>]]
         /\ lastReq' = r
         /\ lastResp' = [status |-> 101, body |-> <<>>, challenge |-> "",
                         handler |-> "handle_websocket",
                         session |-> FreeSlot]
         /\ UNCHANGED <<server, log, received, infoLog, clientVars>>
    ELSE /\ lastReq' = r
         /\ lastResp' = [status |-> 400, body |-> <<>>, challenge |-> "",
                         handler |-> "handle_websocket", session |-> 0]
         /\ UNCHANGED <<server, log, received, infoLog, sess, clientVars>>

Reject(r) ==
    /\ lastReq' = r
    /\ lastResp' = AuthGuard(r)
    /\ UNCHANGED <<server, log, received, infoLog, sess, clientVars>>

\* One HTTP request, from routing to response, of a server that has not
\* stopped.
Request(r) ==
    /\ server # "stopped"
    /\ IF Route(r) = "handle_receive" THEN HandleReceive(r)
       ELSE IF Route(r) = "handle_websocket" THEN HandleWebsocket(r)
       ELSE Reject(r)

\* ----------------------------------------------------- the session task
\* A frame that drops its payload.
FrameNoPayload(kind, id, payload) == [kind |-> kind, id |-> id, payload |-> ""]

Frame(kind, id, payload) == [kind |-> kind, id |-> id, payload |-> payload]

\* Leaving the loop: what remains is the close and "Session finished".
Break(s, cursor) ==
    sess' = [sess EXCEPT ![s].st = "closing", ![s].cursor = cursor, ![s].off = FALSE]

\* The select's second branch, `Ok(msg) = receiver.recv()`.  Err(Lagged) does
\* not match the pattern: the branch is disabled for the rest of this select
\* and the task goes on waiting for the other branch.  Ok sends the envelope as
\* one binary frame; a write error leaves the loop.
SessRecv(s, writeOk) ==
    /\ sess[s].st = "running"
    /\ ~sess[s].off
    /\ sess[s].cursor < Len(log)
    /\ LET r == ReceiverRecv(sess[s].cursor, Len(log)) IN
       IF r.kind = "Lagged"
       THEN /\ writeOk
            /\ sess' = [sess EXCEPT ![s].cursor = r.next, ![s].off = TRUE,
                                    ![s].lagged = TRUE]
       ELSE IF writeOk
       THEN sess' = [sess EXCEPT ![s].cursor = r.next,
                                 ![s].out = Append(@, Frame("Binary", r.id, ""))]
       ELSE Break(s, r.next)
    /\ UNCHANGED <<server, log, received, infoLog, lastReq, lastResp, clientVars>>

\* A session that takes any frame other than a Ping for a reason to leave.
SessFrameStrict(s, f, writeOk) ==
    /\ sess[s].st = "running"
    /\ IF f.kind = "Ping"
       THEN IF writeOk
            THEN sess' = [sess EXCEPT ![s].off = FALSE,
                                      ![s].out = Append(@, Frame("Pong", 0, f.payload))]
            ELSE Break(s, sess[s].cursor)
       ELSE writeOk /\ sess' = [sess EXCEPT ![s].st = "closing", ![s].off = FALSE,
                                            ![s].ignored = f.kind]
    /\ UNCHANGED <<server, log, received, infoLog, lastReq, lastResp, clientVars>>

\* The select's first branch, `message = msg_stream.next()`.  Whatever the
\* frame, the select is over: the next one polls the receiver again.
SessFrame(s, f, writeOk) ==
    /\ sess[s].st = "running"
    /\ IF f.kind = "Ping"
       THEN IF writeOk
            THEN sess' = [sess EXCEPT ![s].off = FALSE,
                                      ![s].out = Append(@, Frame("Pong", 0, f.payload))]
            ELSE Break(s, sess[s].cursor)
       ELSE IF f.kind \in {"Close", "Error", "End"}
       THEN writeOk /\ Break(s, sess[s].cursor)
       ELSE writeOk /\ sess' = [sess EXCEPT ![s].off = FALSE, ![s].ignored = f.kind]
    /\ UNCHANGED <<server, log, received, infoLog, lastReq, lastResp, clientVars>>

\* After the loop: the close is attempted, "Session finished" is logged, the
\* task ends and its receiver is dropped.
SessFinish(s) ==
    /\ sess[s].st = "closing"
    /\ sess' = [sess EXCEPT ![s].st = "finished",
                            ![s].out = Append(@, Frame("Close", 0, "")),
                            ![s].events = Append(@, "Session finished")]
    /\ UNCHANGED <<server, log, received, infoLog, lastReq, lastResp, clientVars>>

Pongs(s) == Len(SelectSeq(sess[s].out, LAMBDA f : f.kind = "Pong"))

\* ------------------------------------------------------ server shutdown
\* The session task selects on its inbound stream and its receiver alone; the
\* stop of the HttpServer (run(), with shutdown_timeout(10)) is nothing it
\* awaits.  A stop ends the workers, at once when it is forced and when the
\* connections are gone or the timeout has run out when it is graceful; the
\* session tasks still alive then are dropped where they stand.
DropSessions(ss) ==
    [s \in Sessions |->
        IF ss[s].st \in {"running", "closing"}
        THEN [ss[s] EXCEPT !.st = "dropped"]
        ELSE ss[s]]

ServerSignal(graceful) ==
    /\ server = "running"
    /\ IF graceful
       THEN server' = "stopping" /\ UNCHANGED sess
       ELSE server' = "stopped" /\ sess' = DropSessions(sess)
    /\ UNCHANGED <<log, received, infoLog, lastReq, lastResp, clientVars>>

ServerStop ==
    /\ server = "stopping"
    /\ server' = "stopped"
    /\ sess' = DropSessions(sess)
    /\ UNCHANGED <<log, received, infoLog, lastReq, lastResp, clientVars>>

\* ================================================================ client
\* handle_connect and connect_and_run.  Time is counted in seconds: Tick is
\* one second passing; a timer that has run out, or a signal that a receiver
\* holds, wakes the task before another second passes.

\* ------------------------------------------------------------------ URLs
\* Url::set_path: the whole argument is taken for a path.  A "?" in it does
\* not start a query: it is percent-encoded into the last segment.  The URL's
\* own query is kept.  (The argument is a string path[?query], held as Uri.)
SetPath(url, str) ==
    [url EXCEPT !.path =
        IF str.query = NoQuery
        THEN str.path
        ELSE [str.path EXCEPT ![Len(str.path)] = @ \o "%3F" \o str.query]]

\* prepare_remote_url: the scheme is checked; a path other than "/" is
\* replaced by "/__hookhub__/".
prepare_remote_url(remote) ==
    IF remote.scheme # "ws" /\ remote.scheme # "wss"
    THEN [ok |-> FALSE, url |-> remote]
    ELSE IF remote.path # RootPath
    THEN [ok |-> TRUE, url |-> SetPath(remote, Uri(WsPath, NoQuery))]
    ELSE [ok |-> TRUE, url |-> remote]

\* prepare_local_url: the scheme is checked; a path other than "/" is
\* replaced by "/".
prepare_local_url(local) ==
    IF local.scheme # "http" /\ local.scheme # "https"
    THEN [ok |-> FALSE, url |-> local]
    ELSE IF local.path # RootPath
    THEN [ok |-> TRUE, url |-> SetPath(local, Uri(RootPath, NoQuery))]
    ELSE [ok |-> TRUE, url |-> local]

\* Profile::prepare: both schemes are checked, then both paths are set.
ProfilePrepare(profile) ==
    IF profile.remote.scheme # "ws" /\ profile.remote.scheme # "wss"
    THEN [ok |-> FALSE, remote |-> profile.remote, local |-> profile.local]
    ELSE IF profile.local.scheme # "http" /\ profile.local.scheme # "https"
    THEN [ok |-> FALSE, remote |-> profile.remote, local |-> profile.local]
    ELSE [ok |-> TRUE,
          remote |-> SetPath(profile.remote, Uri(WsPath, NoQuery)),
          local |-> SetPath(profile.local, Uri(RootPath, NoQuery))]

\* impl From<Version> for http::Version.
HttpVersionFromVersion(value) ==
    CASE value = 0 -> "HTTP/0.9"
      [] value = 1 -> "HTTP/1.0"
      [] value = 2 -> "HTTP/1.1"
      [] value = 3 -> "HTTP/2.0"
      [] value = 4 -> "HTTP/3.0"
      [] OTHER -> "panic"

\* forward_request, up to the request it builds: the envelope's method, the
\* local URL with its path set to the envelope's fullpath, the mapped version.
forward_request(req, local) ==
    [req |-> req,
     method |-> req.method,
     url |-> SetPath(local, req.fullpath),
     version |-> HttpVersionFromVersion(req.version)]

NoForward ==
    [req |-> <<>>, method |-> "", url |-> Url("", "", <<>>, NoQuery), version |-> ""]

\* The envelope of a plain public request.
DefaultEnvelope == Envelope(PublicPost, <<>>)

\* No envelope in hand.
NoEnvelope ==
    [method |-> "", fullpath |-> Uri(<<>>, NoQuery), version |-> 0,
     headers |-> <<>>]

\* What is kept of the tasks spawned: the first MaxForwards.
RecordSpawned(q, t) == IF Len(q) < MaxForwards THEN Append(q, t) ELSE q

\* What is kept of the frames written: the first MaxWritten.
RecordWritten(q, f) == IF Len(q) < MaxWritten THEN Append(q, f) ELSE q

\* ----------------------------------------------------------- the connector
ConnectErrors == {"setup", "refused", "rejected"}
SessionErrors == {"receive", "decode", "ping"}
Errors == ConnectErrors \cup SessionErrors

Min(a, b) == IF a < b THEN a ELSE b

\* A backoff that grows with the attempts made.
GrowingDelay(n) == RetryDelay * n

\* The reconnect sleep before the attempt after the n-th: time::sleep(5 s).
ReconnectDelay(n) == RetryDelay

\* connect_and_run returns Err: its shutdown receiver and its stream are
\* dropped, and handle_connect has the error in hand.
Fail(kind) ==
    /\ pc' = "failed"
    /\ result' = kind
    /\ rx' = "none"
    /\ pingLeft' = 0
    /\ streamOpen' = FALSE
    /\ UNCHANGED <<sigint, sleepLeft, waited, attempts, lastDelay, exit, forwards, written, forwarded>>

\* The request cannot be built, the transport is refused, or the server
\* rejects the handshake.
ConnectFail(kind) ==
    /\ pc = "connecting"
    /\ Fail(kind)
    /\ UNCHANGED <<serverVars, storeVars, taskVars, config, prepared>>

\* connect_async succeeds: the keep-alive interval is armed and only now does
\* the session subscribe to the shutdown channel.
ConnectOk ==
    /\ pc = "connecting"
    /\ pc' = "connected"
    /\ result' = "running"
    /\ rx' = "empty"
    /\ pingLeft' = PingInterval
    /\ streamOpen' = TRUE
    /\ written' = <<>>
    /\ UNCHANGED <<sigint, sleepLeft, waited, attempts, lastDelay, exit, forwards, forwarded>>
    /\ UNCHANGED <<serverVars, storeVars, taskVars, config, prepared>>

\* A binary frame: it is decoded, and the loop awaits HISTORY_DB.add on the
\* envelope; a frame that does not decode is an error.
RecvBinary(req, decodes) ==
    /\ pc = "connected" /\ streamOpen
    /\ IF decodes
       THEN /\ pc' = "storing"
            /\ pending' = req
            /\ UNCHANGED <<rx, sigint, sleepLeft, pingLeft, waited,
                           attempts, lastDelay, result, exit, streamOpen,
                           forwards, written, forwarded, tasks>>
       ELSE Fail("decode") /\ UNCHANGED taskVars
    /\ UNCHANGED <<serverVars, storeVars, config, prepared>>

\* HISTORY_DB.add(..).await.unwrap() returns, then forward_request: the
\* stored envelope's forward is spawned and the loop selects again.  An Err
\* from the store panics in the main task: the process ends, the envelope in
\* hand unforwarded.
HistoryAdd(ok) ==
    /\ pc = "storing"
    /\ IF ok
       THEN /\ pc' = "connected"
            /\ forwards' = Min(forwards + 1, MaxForwards)
            /\ forwarded' = forward_request(pending, prepared.local)
            /\ tasks' = RecordSpawned(tasks, [req |-> pending, st |-> "running"])
            /\ pending' = NoEnvelope
            /\ UNCHANGED <<rx, sigint, sleepLeft, pingLeft, waited, attempts,
                           lastDelay, result, exit, streamOpen, written>>
       ELSE /\ pc' = "panicked"
            /\ result' = "panic"
            /\ rx' = "none"
            /\ pingLeft' = 0
            /\ streamOpen' = FALSE
            /\ UNCHANGED <<sigint, sleepLeft, waited, attempts, lastDelay,
                           exit, forwards, written, forwarded, taskVars>>
    /\ UNCHANGED <<serverVars, storeVars, config, prepared>>

\* The task forward_request spawned: http.execute returns, Ok or Err, and the
\* task logs the one or the other and ends.  It runs beside the receive loop;
\* a task still running when the process ends does not complete.
ForwardDone(i, ok) ==
    /\ i \in DOMAIN tasks
    /\ tasks[i].st = "running"
    /\ pc \notin {"stopped", "panicked"}
    /\ tasks' = [tasks EXCEPT ![i].st = IF ok THEN "ok" ELSE "failed"]
    /\ UNCHANGED <<pc, rx, sigint, sleepLeft, pingLeft, waited, attempts,
                   lastDelay, result, exit, streamOpen, forwards, written,
                   forwarded, pending>>
    /\ UNCHANGED <<serverVars, storeVars, config, prepared>>

\* A Close frame taken for an error.
RecvCloseAsError ==
    /\ pc = "connected" /\ streamOpen
    /\ exit' = "close"
    /\ pc' = "failed"
    /\ result' = "closed"
    /\ rx' = "none"
    /\ pingLeft' = 0
    /\ streamOpen' = FALSE
    /\ UNCHANGED <<sigint, sleepLeft, waited, attempts, lastDelay, forwards, written, forwarded>>
    /\ UNCHANGED <<serverVars, storeVars, taskVars, config, prepared>>

\* A Close frame: "Server closed the connection", and the loop is left.
RecvClose ==
    /\ pc = "connected" /\ streamOpen
    /\ pc' = "closing"
    /\ exit' = "close"
    /\ UNCHANGED <<rx, sigint, sleepLeft, pingLeft, waited, attempts,
                   lastDelay, result, streamOpen, forwards, written, forwarded>>
    /\ UNCHANGED <<serverVars, storeVars, taskVars, config, prepared>>

\* Any other frame is ignored.
RecvOther ==
    /\ pc = "connected" /\ streamOpen
    /\ UNCHANGED vars

\* stream.next() yields an error: `message?` returns it.
RecvError ==
    /\ pc = "connected" /\ streamOpen
    /\ Fail("receive")
    /\ UNCHANGED <<serverVars, storeVars, taskVars, config, prepared>>

\* stream.next() yields None: the pattern Some(message) does not match and the
\* select goes on with its other branches.
StreamEnd ==
    /\ pc = "connected" /\ streamOpen
    /\ streamOpen' = FALSE
    /\ UNCHANGED <<pc, rx, sigint, sleepLeft, pingLeft, waited, attempts,
                   lastDelay, result, exit, forwards, written, forwarded>>
    /\ UNCHANGED <<serverVars, storeVars, taskVars, config, prepared>>

\* A keep-alive that writes a Text frame.
PingTickText(sent) ==
    /\ pc = "connected" /\ pingLeft = 0
    /\ sent => streamOpen
    /\ IF sent
       THEN /\ pingLeft' = PingInterval
            /\ written' = RecordWritten(written, [kind |-> "Text", payload |-> PingPayload])
            /\ UNCHANGED <<pc, rx, sigint, sleepLeft, waited, attempts,
                           lastDelay, result, exit, streamOpen, forwards,
                           forwarded>>
       ELSE Fail("ping")
    /\ UNCHANGED <<serverVars, storeVars, taskVars, config, prepared>>

\* interval.tick(): the Ping is sent, or the send fails (as it does on a
\* stream that has ended).
PingTick(sent) ==
    /\ pc = "connected" /\ pingLeft = 0
    /\ sent => streamOpen
    /\ IF sent
       THEN /\ pingLeft' = PingInterval
            /\ written' = RecordWritten(written, [kind |-> "Ping", payload |-> PingPayload])
            /\ UNCHANGED <<pc, rx, sigint, sleepLeft, waited, attempts,
                           lastDelay, result, exit, streamOpen, forwards,
                           forwarded>>
       ELSE Fail("ping")
    /\ UNCHANGED <<serverVars, storeVars, taskVars, config, prepared>>

\* shutdown.recv() in the receive loop.
ShutdownRecv ==
    /\ pc = "connected" /\ rx = "signalled"
    /\ pc' = "closing"
    /\ exit' = "shutdown"
    /\ UNCHANGED <<rx, sigint, sleepLeft, pingLeft, waited, attempts,
                   lastDelay, result, streamOpen, forwards, written, forwarded>>
    /\ UNCHANGED <<serverVars, storeVars, taskVars, config, prepared>>

\* A connect_and_run that returns an error after its loop.
DisconnectAsError ==
    /\ pc = "closing"
    /\ pc' = "failed"
    /\ result' = "closed"
    /\ rx' = "none"
    /\ pingLeft' = 0
    /\ streamOpen' = FALSE
    /\ UNCHANGED <<sigint, sleepLeft, waited, attempts, lastDelay, exit,
                   forwards, written, forwarded>>
    /\ UNCHANGED <<serverVars, storeVars, taskVars, config, prepared>>

\* After the loop: "Disconnected", the close is attempted, connect_and_run
\* returns Ok and handle_connect leaves its loop.
Disconnect ==
    /\ pc = "closing"
    /\ pc' = "stopped"
    /\ result' = "Ok"
    /\ rx' = "none"
    /\ pingLeft' = 0
    /\ streamOpen' = FALSE
    /\ written' = IF streamOpen
                  THEN RecordWritten(written, [kind |-> "Close", payload |-> ""])
                  ELSE written
    /\ UNCHANGED <<sigint, sleepLeft, waited, attempts, lastDelay, exit, forwards, forwarded>>
    /\ UNCHANGED <<serverVars, storeVars, taskVars, config, prepared>>

\* handle_connect with an error in hand: it logs, subscribes to the shutdown
\* channel and starts the sleep.
EnterWait ==
    /\ pc = "failed"
    /\ pc' = "waiting"
    /\ rx' = "empty"
    /\ sleepLeft' = ReconnectDelay(attempts)
    /\ waited' = 0
    /\ UNCHANGED <<sigint, pingLeft, attempts, lastDelay, result, exit,
                   streamOpen, forwards, written, forwarded>>
    /\ UNCHANGED <<serverVars, storeVars, taskVars, config, prepared>>

\* The sleep is over: the receiver is dropped and the loop connects again.
WaitElapsed ==
    /\ pc = "waiting" /\ sleepLeft = 0
    /\ pc' = "connecting"
    /\ rx' = "none"
    /\ attempts' = Min(attempts + 1, MaxAttempts)
    /\ lastDelay' = waited
    /\ result' = "none"
    /\ UNCHANGED <<sigint, sleepLeft, pingLeft, waited, exit, streamOpen, forwards, written, forwarded>>
    /\ UNCHANGED <<serverVars, storeVars, taskVars, config, prepared>>

\* shutdown.recv() in the reconnect wait: handle_connect leaves its loop.
WaitShutdown ==
    /\ pc = "waiting" /\ rx = "signalled"
    /\ pc' = "stopped"
    /\ exit' = "wait-shutdown"
    /\ rx' = "none"
    /\ UNCHANGED <<sigint, sleepLeft, pingLeft, waited, attempts, lastDelay,
                   result, streamOpen, forwards, written, forwarded>>
    /\ UNCHANGED <<serverVars, storeVars, taskVars, config, prepared>>

\* The head of handle_connect: both URLs are prepared; an error here is
\* returned (the client never connects), otherwise the first attempt starts.
PrepareUrls ==
    /\ pc = "start"
    /\ LET r == prepare_remote_url(config.remote)
           l == prepare_local_url(config.local)
       IN  IF r.ok /\ l.ok
           THEN /\ pc' = "connecting"
                /\ attempts' = 1
                /\ prepared' = [remote |-> r.url, local |-> l.url]
                /\ UNCHANGED result
           ELSE /\ pc' = "stopped"
                /\ result' = "fatal"
                /\ UNCHANGED <<attempts, prepared>>
    /\ UNCHANGED <<rx, sigint, sleepLeft, pingLeft, waited, lastDelay, exit,
                   streamOpen, forwards, written, forwarded>>
    /\ UNCHANGED <<serverVars, storeVars, taskVars, config>>

\* The same start from a stored profile: Profile::prepare gives the URLs.
PrepareProfile ==
    /\ pc = "start"
    /\ LET r == ProfilePrepare(config)
       IN  IF r.ok
           THEN /\ pc' = "connecting"
                /\ attempts' = 1
                /\ prepared' = [remote |-> r.remote, local |-> r.local]
                /\ UNCHANGED result
           ELSE /\ pc' = "stopped"
                /\ result' = "fatal"
                /\ UNCHANGED <<attempts, prepared>>
    /\ UNCHANGED <<rx, sigint, sleepLeft, pingLeft, waited, lastDelay, exit,
                   streamOpen, forwards, written, forwarded>>
    /\ UNCHANGED <<serverVars, storeVars, taskVars, config>>

\* The upgrade request connect_and_run builds: the prepared remote URL and
\* Authorization: Basic base64(VERSION:secret).
UpgradeRequest(url) ==
    [method |-> "GET", path |-> url.path, upgrade |-> TRUE,
     user |-> VERSION, pass |-> SECRET,
     query |-> url.query, version |-> "HTTP/1.1", headers |-> <<>>]

\* SIGINT: the signal task sends () on the shutdown channel and ends.  The
\* channel hands the value to the receivers that exist at that moment; one
\* created later does not see it.
Sigint ==
    /\ ~sigint /\ pc \notin {"start", "stopped"}
    /\ sigint' = TRUE
    /\ rx' = IF rx = "empty" THEN "signalled" ELSE rx
    /\ UNCHANGED <<pc, sleepLeft, pingLeft, waited, attempts, lastDelay,
                   result, exit, streamOpen, forwards, written, forwarded>>
    /\ UNCHANGED <<serverVars, storeVars, taskVars, config, prepared>>

\* One second passes.  A loop that awaits the store is at no select: its
\* timer runs on and a signal it holds does not wake it.
Tick ==
    /\ rx # "signalled" \/ pc = "storing"
    /\ \/ /\ pc \in {"connected", "storing"} /\ pingLeft > 0
          /\ pingLeft' = pingLeft - 1
          /\ UNCHANGED <<sleepLeft, waited>>
       \/ /\ pc = "waiting" /\ sleepLeft > 0
          /\ sleepLeft' = sleepLeft - 1
          /\ waited' = waited + 1
          /\ UNCHANGED pingLeft
    /\ UNCHANGED <<pc, rx, sigint, attempts, lastDelay, result, exit,
                   streamOpen, forwards, written, forwarded>>
    /\ UNCHANGED <<serverVars, storeVars, taskVars, config, prepared>>

\* ========================================================= profile store
\* Profiles (profiles.rs): a HashMap from a profile's name to the profile,
\* read from profiles.json by Profiles::new and written back whole by add and
\* delete.  The mapping is a function on the names it holds.
ProfileNames == {"dev", "prod"}
StoredProfiles == {DefaultConfig, [remote |-> DefaultRemote, local |-> DefaultLocal]}
EmptyMap == <<>>

\* HashMap::insert and HashMap::remove_entry, on the clone.
MapInsert(map, name, profile) ==
    [n \in DOMAIN map \cup {name} |-> IF n = name THEN profile ELSE map[n]]
MapRemove(map, name) ==
    [n \in DOMAIN map \ {name} |-> map[n]]

\* serde_json::to_vec_pretty of the mapping: a JSON object, one member for
\* each name; serde_json::from_slice reads the members back.
Serialize(map) == {<<n, map[n]>> : n \in DOMAIN map}
Deserialize(data) ==
    [n \in {member[1] : member \in data} |->
        (CHOOSE member \in data : member[1] = n)[2]]

\* profiles.json: absent, written whole, or cut short by a write that failed
\* after the file was truncated.
NoFile == [state |-> "absent", data |-> {}]
PartialFile == [state |-> "partial", data |-> {}]
WrittenFile(data) == [state |-> "written", data |-> data]

\* fs::write: it succeeds, or fails with the file untouched, or fails with the
\* file cut short.
WriteOutcomes == {"ok", "denied", "partial"}
FsWrite(old, data, w) ==
    IF w = "ok" THEN WrittenFile(data)
    ELSE IF w = "denied" THEN old
    ELSE PartialFile

NoOutcome ==
    [op |-> "none", name |-> "", profile |-> DefaultConfig, result |-> "",
     mem |-> EmptyMap, file |-> NoFile]
Outcome(op, name, profile, returned) ==
    [op |-> op, name |-> name, profile |-> profile, result |-> returned,
     mem |-> profiles, file |-> file]

\* A Profiles value exists: Profiles::new has returned Ok.
Loaded == outcome.op # "none" /\ ~(outcome.op = "new" /\ outcome.result # "ok")

\* Profiles::new: the file is read and parsed; no file is the empty mapping,
\* a file that does not parse is an error.
ProfilesNew ==
    /\ IF file.state = "absent"
       THEN profiles' = EmptyMap /\ outcome' = Outcome("new", "", DefaultConfig, "ok")
       ELSE IF file.state = "written"
       THEN /\ profiles' = Deserialize(file.data)
            /\ outcome' = Outcome("new", "", DefaultConfig, "ok")
       ELSE /\ profiles' = EmptyMap
            /\ outcome' = Outcome("new", "", DefaultConfig, "parse")
    /\ UNCHANGED file
    /\ UNCHANGED <<serverVars, pc, rx, sigint, sleepLeft, pingLeft, waited,
                   attempts, lastDelay, result, exit, streamOpen, forwards,
                   config, prepared, written, forwarded, taskVars>>

\* An add that stores the clone whether or not the name was there.
ProfilesAddOverwrite(name, profile, w) ==
    /\ Loaded
    /\ LET clone == profiles
           existed == name \in DOMAIN clone
           inserted == MapInsert(clone, name, profile)
       IN  /\ file' = FsWrite(file, Serialize(inserted), w)
           /\ profiles' = IF w = "ok" THEN inserted ELSE profiles
           /\ outcome' = Outcome("add", name, profile,
                                 IF existed THEN "exists"
                                 ELSE IF w = "ok" THEN "ok" ELSE "write")
    /\ UNCHANGED <<serverVars, pc, rx, sigint, sleepLeft, pingLeft, waited,
                   attempts, lastDelay, result, exit, streamOpen, forwards,
                   config, prepared, written, forwarded, taskVars>>

\* Profiles::add: insert into a clone; a name already there is an error and
\* the clone is dropped; otherwise the clone is written to the file and, the
\* write done, becomes the mapping.
ProfilesAdd(name, profile, w) ==
    /\ Loaded
    /\ LET clone == profiles
           existed == name \in DOMAIN clone
           inserted == MapInsert(clone, name, profile)
       IN  IF existed
           THEN /\ outcome' = Outcome("add", name, profile, "exists")
                /\ UNCHANGED <<profiles, file>>
           ELSE /\ file' = FsWrite(file, Serialize(inserted), w)
                /\ profiles' = IF w = "ok" THEN inserted ELSE profiles
                /\ outcome' = Outcome("add", name, profile,
                                      IF w = "ok" THEN "ok" ELSE "write")
    /\ UNCHANGED <<serverVars, pc, rx, sigint, sleepLeft, pingLeft, waited,
                   attempts, lastDelay, result, exit, streamOpen, forwards,
                   config, prepared, written, forwarded, taskVars>>

\* Profiles::delete: remove from a clone; a name that is not there is an
\* error; otherwise the clone is written and becomes the mapping.
ProfilesDelete(name, w) ==
    /\ Loaded
    /\ LET clone == profiles
           existed == name \in DOMAIN clone
           removed == MapRemove(clone, name)
       IN  IF existed
           THEN /\ file' = FsWrite(file, Serialize(removed), w)
                /\ profiles' = IF w = "ok" THEN removed ELSE profiles
                /\ outcome' = Outcome("delete", name, DefaultConfig,
                                      IF w = "ok" THEN "ok" ELSE "write")
           ELSE /\ outcome' = Outcome("delete", name, DefaultConfig, "missing")
                /\ UNCHANGED <<profiles, file>>
    /\ UNCHANGED <<serverVars, pc, rx, sigint, sleepLeft, pingLeft, waited,
                   attempts, lastDelay, result, exit, streamOpen, forwards,
                   config, prepared, written, forwarded, taskVars>>

InitStore ==
    /\ profiles = EmptyMap
    /\ file = NoFile
    /\ outcome = NoOutcome

\* ================================================================== init
InitClient ==
    /\ pc = "connecting"
    /\ rx = "none"
    /\ sigint = FALSE
    /\ sleepLeft = 0
    /\ pingLeft = 0
    /\ waited = 0
    /\ attempts = 1
    /\ lastDelay = 0
    /\ result = "none"
    /\ exit = ""
    /\ streamOpen = FALSE
    /\ forwards = 0
    /\ config = DefaultConfig
    /\ prepared = [remote |-> prepare_remote_url(DefaultConfig.remote).url,
                   local |-> prepare_local_url(DefaultConfig.local).url]
    /\ written = <<>>
    /\ forwarded = NoForward
    /\ pending = NoEnvelope
    /\ tasks = <<>>
    /\ InitStore

\* The client before handle_connect has looked at its URLs, under any of the
\* configurations.
InitClientStart ==
    /\ pc = "start"
    /\ rx = "none"
    /\ sigint = FALSE
    /\ sleepLeft = 0
    /\ pingLeft = 0
    /\ waited = 0
    /\ attempts = 0
    /\ lastDelay = 0
    /\ result = "none"
    /\ exit = ""
    /\ streamOpen = FALSE
    /\ forwards = 0
    /\ config \in Configs
    /\ prepared = NoUrls
    /\ written = <<>>
    /\ forwarded = NoForward
    /\ pending = NoEnvelope
    /\ tasks = <<>>
    /\ InitStore

\* ======================================================== specifications
InitServer ==
    /\ log = <<>>
    /\ received = 0
    /\ infoLog = <<>>
    /\ sess = [s \in Sessions |-> NoSession]
    /\ lastReq = NoRequest
    /\ lastResp = NoResponse
    /\ server = "running"

Init == InitServer /\ InitClient

\* The bus under load: public requests up to MaxPublish, sessions that attach
\* early and whose peers send nothing but the odd text frame.
BusRequest(r) ==
    /\ r = PublicPost => Len(log) < MaxPublish
    /\ r = ValidUpgrade => Len(log) <= MaxSubscribeAt
    /\ Request(r)

\* A peer's frame, arriving while the session waits on its inbound stream
\* alone.
BusFrame(s, f) ==
    /\ sess[s].off
    /\ SessFrame(s, f, TRUE)

NextBus ==
    \/ \E r \in BusRequests : BusRequest(r)
    \/ \E s \in Sessions : SessRecv(s, TRUE)
    \/ \E s \in Sessions, f \in BusFrames : BusFrame(s, f)

SpecBus == Init /\ [][NextBus]_vars

\* The sessions in full: every inbound frame, reads that end or fail, writes
\* that fail, and the end of the task.  The peer of the first session is the
\* one that pings and sends stray frames; the other peer only ever leaves.
SessionRequest(r) ==
    /\ r = PublicPost => Len(log) < MaxRequests
    /\ Request(r)

SessionFrame(s, f, writeOk) ==
    /\ f.kind \in {"Ping", "Pong", "Text"} => s = 1
    /\ (f.kind = "Ping" /\ writeOk) => Pongs(s) < MaxPings
    /\ SessFrame(s, f, writeOk)

NextSession ==
    \/ \E r \in BusRequests : SessionRequest(r)
    \/ \E s \in Sessions, writeOk \in BOOLEAN : SessRecv(s, writeOk)
    \/ \E s \in Sessions, f \in AllFrames, writeOk \in BOOLEAN :
          SessionFrame(s, f, writeOk)
    \/ \E s \in Sessions : SessFinish(s)

SpecSession == Init /\ [][NextSession]_vars

\* Routing and authentication: every method, path and credential.
HttpRequest(r) ==
    /\ Route(r) = "handle_receive" => Len(log) < MaxCaptures
    /\ Request(r)

NextHttp ==
    \/ \E r \in AllRequests : HttpRequest(r)
    \/ \E s \in Sessions : SessRecv(s, TRUE)

SpecHttp == Init /\ [][NextHttp]_vars

\* The client connector.
NextClient ==
    \/ \E kind \in ConnectErrors : ConnectFail(kind)
    \/ ConnectOk
    \/ \E decodes \in BOOLEAN : RecvBinary(DefaultEnvelope, decodes)
    \/ \E ok \in BOOLEAN : HistoryAdd(ok)
    \/ RecvClose
    \/ RecvOther
    \/ RecvError
    \/ StreamEnd
    \/ \E sent \in BOOLEAN : PingTick(sent)
    \/ ShutdownRecv
    \/ Disconnect
    \/ EnterWait
    \/ WaitElapsed
    \/ WaitShutdown
    \/ Sigint
    \/ Tick

SpecClient == Init /\ [][NextClient]_vars

\* The runtime runs a task that is ready, connect_async returns, and time
\* passes.  Nothing obliges the server to send a frame or SIGINT to arrive.
ClientFairness ==
    /\ WF_vars(\E kind \in ConnectErrors : ConnectFail(kind) \/ ConnectOk)
    /\ WF_vars(\E sent \in BOOLEAN : PingTick(sent))
    /\ WF_vars(\E ok \in BOOLEAN : HistoryAdd(ok))
    /\ WF_vars(ShutdownRecv)
    /\ WF_vars(Disconnect)
    /\ WF_vars(EnterWait)
    /\ WF_vars(WaitElapsed)
    /\ WF_vars(WaitShutdown)
    /\ WF_vars(Tick)

SpecClientFair == Init /\ [][NextClient]_vars /\ ClientFairness

\* Capture: one public request of any version, header sequence or query,
\* with sessions attached or not.
CaptureRequest(r) ==
    /\ log = <<>>
    /\ HandleReceive(r)

NextCapture ==
    \/ \E r \in CaptureRequests : CaptureRequest(r)
    \/ Request(ValidUpgrade)
    \/ \E s \in Sessions : SessRecv(s, TRUE)

SpecCapture == Init /\ [][NextCapture]_vars

\* The relay end to end: the client prepares its URLs and sends its upgrade
\* request, the server routes it; public requests are captured, pumped to the
\* session and forwarded by the client.
RelayRequests ==
    {r \in CaptureRequests : r.headers = <<>>}

RelayUpgrade ==
    /\ pc = "connecting"
    /\ \A s \in Sessions : sess[s].st = "none"
    /\ lastReq # UpgradeRequest(prepared.remote)
    /\ Request(UpgradeRequest(prepared.remote))

RelayConnected ==
    /\ lastReq = UpgradeRequest(prepared.remote)
    /\ lastResp.status = 101
    /\ ConnectOk

RelayRejected ==
    /\ lastReq = UpgradeRequest(prepared.remote)
    /\ lastResp.status # 101
    /\ ConnectFail("rejected")

RelayCapture(r) ==
    /\ pc = "connected"
    /\ Len(log) < MaxCaptures
    /\ HandleReceive(r)

\* The client reads the next binary frame its session has sent.
RelayRecv(s) ==
    /\ sess[s].st = "running"
    /\ LET b == SelectSeq(sess[s].out, LAMBDA f : f.kind = "Binary") IN
       /\ forwards < Len(b)
       /\ RecvBinary(log[b[forwards + 1].id], TRUE)

NextRelay ==
    \/ PrepareUrls
    \/ PrepareProfile
    \/ RelayUpgrade
    \/ RelayConnected
    \/ RelayRejected
    \/ \E r \in RelayRequests : RelayCapture(r)
    \/ \E s \in Sessions : SessRecv(s, TRUE)
    \/ \E s \in Sessions : RelayRecv(s)
    \/ \E ok \in BOOLEAN : HistoryAdd(ok)

InitRelay == InitServer /\ InitClientStart

SpecRelay == InitRelay /\ [][NextRelay]_vars

\* Keep-alive end to end: a connected client pings, its session reads the
\* pings the client wrote and answers them.
KeepAliveUpgrade ==
    /\ pc = "connecting"
    /\ \A s \in Sessions : sess[s].st = "none"
    /\ Request(UpgradeRequest(prepared.remote))

KeepAliveConnected ==
    /\ lastResp.status = 101
    /\ ConnectOk

KeepAlivePing(sent) ==
    /\ Len(written) < MaxWritten
    /\ PingTick(sent)

\* The session reads the next frame the client wrote.
KeepAliveRead(s, writeOk) ==
    /\ pc = "connected"
    /\ Pongs(s) < Len(written)
    /\ SessFrame(s, written[Pongs(s) + 1], writeOk)

NextKeepAlive ==
    \/ KeepAliveUpgrade
    \/ KeepAliveConnected
    \/ Tick
    \/ \E sent \in BOOLEAN : KeepAlivePing(sent)
    \/ \E s \in Sessions, writeOk \in BOOLEAN : KeepAliveRead(s, writeOk)
    \/ \E s \in Sessions : SessFinish(s)

SpecKeepAlive == Init /\ [][NextKeepAlive]_vars

\* The wire of one connection, both directions: the client pings and, on
\* SIGINT or on the server's Close, closes; the session pumps envelopes,
\* answers the pings it reads, and closes when its loop is left.
WireCapture ==
    /\ pc = "connected"
    /\ Len(log) < MaxCaptures
    /\ HandleReceive(PublicPost)

\* The session reads the next frame the client wrote.
WireRead(s, writeOk) ==
    /\ Pongs(s) < Len(written)
    /\ SessFrame(s, written[Pongs(s) + 1], writeOk)

\* The client reads the Close its session sent.
WireRecvClose(s) ==
    /\ sess[s].st = "finished"
    /\ RecvClose

NextWire ==
    \/ KeepAliveUpgrade
    \/ KeepAliveConnected
    \/ Tick
    \/ \E sent \in BOOLEAN : KeepAlivePing(sent)
    \/ WireCapture
    \/ \E s \in Sessions : SessRecv(s, TRUE)
    \/ \E s \in Sessions, writeOk \in BOOLEAN : WireRead(s, writeOk)
    \/ \E s \in Sessions : SessFinish(s)
    \/ \E s \in Sessions : WireRecvClose(s)
    \/ Sigint
    \/ ShutdownRecv
    \/ Disconnect

SpecWire == Init /\ [][NextWire]_vars

\* The profile store: a Profiles value is made, then names are added and
\* deleted, with writes that succeed or fail.
NextProfiles ==
    \/ ProfilesNew
    \/ \E name \in ProfileNames, profile \in StoredProfiles, w \in WriteOutcomes :
          ProfilesAdd(name, profile, w)
    \/ \E name \in ProfileNames, w \in WriteOutcomes : ProfilesDelete(name, w)

SpecProfiles == Init /\ [][NextProfiles]_vars

\* Forwarding: a connected client reads the envelopes of its inbound stream,
\* each a different one, stores and forwards them, while its forwards
\* complete or fail, its timer ticks and SIGINT may arrive.
InboundEnvelope(k) ==
    [DefaultEnvelope EXCEPT !.fullpath = Uri(<<"hook", ToString(k)>>, NoQuery)]

ForwardRecv ==
    /\ Len(tasks) < MaxForwards
    /\ RecvBinary(InboundEnvelope(Len(tasks) + 1), TRUE)

NextForward ==
    \/ ConnectOk
    \/ ForwardRecv
    \/ \E ok \in BOOLEAN : HistoryAdd(ok)
    \/ \E i \in 1..MaxForwards, ok \in BOOLEAN : ForwardDone(i, ok)
    \/ Tick
    \/ PingTick(TRUE)
    \/ RecvClose
    \/ Sigint
    \/ ShutdownRecv
    \/ Disconnect

SpecForward == Init /\ [][NextForward]_vars

\* The life of the sessions, the server's stop included.  The runtime runs a
\* session task that has left its loop, and a stop that has begun ends.
NextLifecycle ==
    \/ NextSession
    \/ \E graceful \in BOOLEAN : ServerSignal(graceful)
    \/ ServerStop

LifecycleFairness ==
    /\ \A s \in Sessions : WF_vars(SessFinish(s))
    /\ WF_vars(ServerStop)

SpecLifecycle == Init /\ [][NextLifecycle]_vars /\ LifecycleFairness

\* ================================================================ claims
\* The ids of the envelopes a session has sent, in the order it sent them.
SentIds(s) ==
    LET b == SelectSeq(sess[s].out, LAMBDA f : f.kind = "Binary") IN
    [i \in 1..Len(b) |-> b[i].id]

\* The ids a+1 .. b in order.
IdRange(a, b) == [i \in 1..(b - a) |-> a + i]

Attached(s) == sess[s].st = "running"

\* C1: fan-out without backfill.  A session never sends an envelope published
\* before it subscribed and never sends one twice; an attached session whose
\* receiver has not lagged has sent every envelope its receiver has passed,
\* starting with the first one published after it subscribed, once each.
C1_FanOutNoBackfill ==
    \A s \in Sessions :
        LET ids == SentIds(s) IN
        /\ \A i \in DOMAIN ids : ids[i] > sess[s].subAt
        /\ \A i, j \in DOMAIN ids : i # j => ids[i] # ids[j]
        /\ sess[s].cursor <= Len(log)
        /\ (Attached(s) /\ ~sess[s].lagged)
              => ids = IdRange(sess[s].subAt, sess[s].cursor)

\* Session 1 subscribed before envelope 1 and session 2 after it; both were
\* attached for envelope 2: session 1 has sent 1 and 2, session 2 only 2.
C1_Witness ==
    /\ Len(log) >= 2
    /\ sess[1].subAt = 0 /\ sess[2].subAt = 1
    /\ Attached(1) /\ Attached(2)
    /\ SentIds(1) = <<1, 2>>
    /\ SentIds(2) = <<2>>

\* C2: per-subscriber FIFO.  The envelopes a session sends go out in the order
\* they were published (ids are publication positions), lag or no lag: each
\* envelope sent is a later publication than the one sent before it.
C2_PerSubscriberFifo ==
    \A s \in Sessions :
        LET ids == SentIds(s) IN
        \A i \in 1..(Len(ids) - 1) : ids[i] < ids[i + 1]

\* A session that sent envelopes, lagged, and sent later ones.
C2_Witness ==
    \E s \in Sessions :
        LET ids == SentIds(s) IN
        /\ sess[s].lagged
        /\ Len(ids) >= 2
        /\ \E i \in 1..(Len(ids) - 1) : ids[i + 1] > ids[i] + 1

\* C3: a lagging subscriber is detached.  Once a session's receiver has
\* reported lag the session sends no further envelope (its loop has ended).
C3_LaggingSessionDetached ==
    [][\A s \in Sessions : sess[s].lagged => sess'[s].out = sess[s].out]_vars

\* C4: a slow subscriber costs the others nothing.  A receiver reports lag
\* only when it is more than Capacity envelopes behind, so a session that is
\* never Capacity or more behind never lags, whatever the other sessions do;
\* and an attached session that has not lagged has sent every envelope
\* published since it subscribed that its receiver has passed, none skipped,
\* and can take the next one whenever one is waiting.
C4_HealthyLosesNothing ==
    /\ [](\A s \in Sessions :
            (Attached(s) /\ ~sess[s].lagged) =>
                /\ SentIds(s) = IdRange(sess[s].subAt, sess[s].cursor)
                /\ sess[s].cursor < Len(log) => ENABLED SessRecv(s, TRUE))
    /\ [][\A s \in Sessions :
            (sess'[s].lagged /\ ~sess[s].lagged)
                => Len(log) - sess[s].cursor > Capacity]_vars

\* One session stopped reading and was lapped; the other kept up and has sent
\* all of the more than Capacity envelopes published.
C4_Witness ==
    \E s, t \in Sessions :
        /\ s # t
        /\ Attached(s) /\ Lagging(sess[s].cursor, Len(log))
        /\ Attached(t) /\ ~sess[t].lagged /\ sess[t].subAt = 0
        /\ Len(log) > Capacity
        /\ SentIds(t) = IdRange(0, Len(log))

C6_ReservedNeverCaptured ==
    \A i \in DOMAIN log : ~UnderScope(log[i].fullpath.path)

\* C7: the version handshake.  An upgrade request (GET /__hookhub__/ with the
\* upgrade headers) gets 401 and a Basic challenge when its password is missing
\* or wrong, 400 when the password is right and the username is not the
\* server's version, and 101 with a session only when both are right.
IsUpgradeRequest(r) == r.method = "GET" /\ r.path = WsPath /\ r.upgrade

C8_ConstantReconnectDelay ==
    /\ [](attempts = 1 => lastDelay = 0)
    /\ [](attempts > 1 => lastDelay = RetryDelay)
    /\ [](pc = "waiting" => sleepLeft + waited = RetryDelay)
    /\ []((pc = "waiting" /\ sleepLeft = 0) => ENABLED WaitElapsed)
    /\ [][(result' \in Errors /\ result' # result) => pc' = "failed"]_vars
    /\ [][(pc = "failed" /\ pc' # "failed")
              => (pc' = "waiting" /\ sleepLeft' = RetryDelay)]_vars
    /\ [][(pc = "waiting" /\ pc' = "connecting") => waited = RetryDelay]_vars

\* The third attempt connected after two waits, then its ping could not be
\* sent, and the client is in its third wait.
C8_Witness ==
    /\ attempts = MaxAttempts
    /\ lastDelay = RetryDelay
    /\ result = "ping"
    /\ pc = "waiting"
    /\ sleepLeft = RetryDelay

\* C9 as stated: a client whose session the server closed with a Close frame
\* goes on to reconnect; until its own shutdown is signalled it never stops.
C9_ReconnectAfterServerClose ==
    (exit = "close" /\ ~sigint) => pc # "stopped"

\* C9, amended: once a connected client has read the server's Close frame it
\* is leaving (closing the stream) or stopped; it holds no error, and never
\* enters a reconnect wait or a connect attempt again.
C9_ServerCloseStopsClient ==
    exit = "close" =>
        /\ pc \in {"closing", "stopped"}
        /\ result \in {"running", "Ok"}

\* The server's Close frame stopped the client; no SIGINT was involved.
C9_Witness ==
    /\ exit = "close"
    /\ pc = "stopped"
    /\ result = "Ok"
    /\ ~sigint

\* C10: shutdown is always observed.  Once SIGINT has been signalled the
\* client eventually stops, whatever it was doing when the signal arrived (a
\* client that has died of a panic runs no more either).
C10_ShutdownObserved ==
    sigint ~> (pc \in {"stopped", "panicked"})

\* C11: the reconnect wait is interruptible.  When the shutdown signal reaches
\* the receiver of a client that is in its reconnect wait, the client leaves
\* the wait for Stopped: it starts no further connect attempt.
C11_WaitInterruptible ==
    [][(pc = "waiting" /\ rx = "signalled")
          => (pc' \in {"waiting", "stopped"} /\ attempts' = attempts)]_vars

\* C12: path substitution.  The URL of a forward has the scheme and host (with
\* port) of the configured local origin and exactly the path and the query of
\* the envelope's fullpath; nothing of the origin's own path or query is left.
C12_PathSubstitution ==
    forwarded # NoForward =>
        forwarded.url = Url(config.local.scheme, config.local.host,
                            forwarded.req.fullpath.path,
                            forwarded.req.fullpath.query)

\* C13: the HTTP version end to end.  The version a forward is built with is
\* the version of the captured public request, except that a request captured
\* at 2.0 is forwarded at 1.1.
C13_VersionEndToEnd ==
    \A r \in RelayRequests :
        (forwarded # NoForward /\ forwarded.req = Envelope(r, <<>>)) =>
            forwarded.version =
                IF r.version = "HTTP/2.0" THEN "HTTP/1.1" ELSE r.version

\* C14: header fidelity at capture.  The headers of a captured envelope are the
\* request's headers without those named host, origin or connection, in
\* receipt order, duplicates kept.
C14_HeaderFidelity ==
    (lastResp.handler = "handle_receive" /\ log # <<>>) =>
        log[Len(log)].headers =
            SelectSeq(lastReq.headers,
                      LAMBDA h : h[1] \notin {"host", "origin", "connection"})

\* C19: the remote path is forced.  Once handle_connect has accepted its URLs
\* the remote URL has path /__hookhub__/, whatever path was configured, and
\* that is the path of every upgrade request the client sends.
C19_RemotePathForced ==
    /\ (pc # "start" /\ result # "fatal") => prepared.remote.path = WsPath
    /\ (lastReq.upgrade /\ lastReq.user = VERSION) => lastReq.path = WsPath

\* The Pong frames a session has sent, in order.
PongFrames(s) == SelectSeq(sess[s].out, LAMBDA f : f.kind = "Pong")

ClientPing == [kind |-> "Ping", payload |-> PingPayload]

\* C15: keep-alive.  A connection starts with PingInterval seconds to its
\* first tick and the seconds count down one at a time; at a tick the client
\* can send its Ping, handling the tick sends a Ping with payload 5,4,3,2,1 and
\* rearms PingInterval seconds, and no Ping is sent at any other time.  The
\* Pongs a session has sent answer, in order and with the same payload, the
\* Pings the client wrote, and a live session with a Ping to read can read and
\* answer it.
C15_KeepAlive ==
    /\ []((pc = "connected" /\ pingLeft = 0 /\ streamOpen)
             => ENABLED PingTick(TRUE))
    /\ [](\A i \in DOMAIN written :
             written[i].kind = "Ping" => written[i] = ClientPing)
    /\ [](\A s \in Sessions :
             LET p == PongFrames(s) IN
             /\ Len(p) <= Len(written)
             /\ \A i \in DOMAIN p : p[i].payload = written[i].payload)
    /\ [](\A s \in Sessions :
             (pc = "connected" /\ sess[s].st = "running"
                 /\ Pongs(s) < Len(written))
               => ENABLED KeepAliveRead(s, TRUE))
    /\ [][(pc # "connected" /\ pc' = "connected")
             => (pingLeft' = PingInterval /\ written' = <<>>)]_vars
    /\ [][(pc = "connected" /\ pc' = "connected" /\ pingLeft = 0
              /\ pingLeft' # 0)
             => (pingLeft' = PingInterval
                 /\ written' = Append(written, ClientPing))]_vars
    /\ [][(pc = "connected" /\ pc' = "connected" /\ written' # written)
             => pingLeft = 0]_vars
    /\ [][(pc = "connected" /\ pc' = "connected" /\ pingLeft > 0)
             => pingLeft' \in {pingLeft, pingLeft - 1}]_vars

\* The client has sent two Pings, 20 seconds apart, and its session has
\* answered both with the payload 5,4,3,2,1.
C15_Witness ==
    /\ pc = "connected"
    /\ Len(written) >= 2
    /\ written[1] = ClientPing /\ written[2] = ClientPing
    /\ \E s \in Sessions :
          /\ sess[s].st = "running"
          /\ Len(PongFrames(s)) = 2
          /\ \A i \in 1..2 : PongFrames(s)[i].payload = PingPayload

\* C16: the delivery count is always logged.  Every publish logs the number of
\* receivers alive at that moment, 0 when there is none.
C16_DeliveryCountLogged ==
    [][Len(log') = Len(log) + 1 => infoLog' = Append(infoLog, RxCount)]_vars

\* C17: the version-mismatch diagnostic.  The 400 answered to a request with
\* the right password and another version says "Server is running version X
\* but you are running Y" with X the server's version and Y the version the
\* client advertised.
C17_MismatchDiagnostic ==
    (lastReq.pass = SECRET /\ lastReq.user # VERSION /\ lastResp.status = 400
        /\ lastResp.handler = "AuthGuard")
      => lastResp.body = <<"Server is running version", VERSION,
                           "but you are running", lastReq.user>>

\* C18: an inbound Close stops the client.  Once a connected client has read a
\* Close frame it is leaving its loop or stopped, starts no reconnect wait and
\* no further attempt; leaving, it attempts the close (a Close frame on a
\* stream still open) and is then stopped with connect_and_run's Ok; and it
\* does get there.
C18_InboundCloseStops ==
    /\ [](exit = "close" => pc \in {"closing", "stopped"})
    /\ [][exit = "close"
             => /\ attempts' = attempts
                /\ sleepLeft' = sleepLeft /\ waited' = waited
                /\ pc' \in {"closing", "stopped"}]_vars
    /\ [][(pc = "closing" /\ pc' # "closing")
             => /\ pc' = "stopped" /\ result' = "Ok"
                /\ streamOpen
                      => written' = RecordWritten(written,
                                        [kind |-> "Close", payload |-> ""])]_vars
    /\ (exit = "close") ~> (pc = "stopped" /\ result = "Ok")

\* The first connection was closed by the server: the client wrote its own
\* Close and stopped, having made one attempt and no reconnect wait.
C18_Witness ==
    /\ exit = "close"
    /\ pc = "stopped" /\ result = "Ok"
    /\ attempts = 1 /\ waited = 0
    /\ written # <<>> /\ written[Len(written)].kind = "Close"

\* C20: server frame handling.  An inbound Close, a read error or the end of
\* the inbound stream makes a live session leave its loop.  A Text frame or an
\* unsolicited Pong is ignored: the session stays live, nothing is written to
\* the peer, nothing is published, and the session waits on both branches of
\* its select again, so an envelope that is waiting can be delivered.
C20_ServerFrameHandling ==
    /\ [][\A s \in Sessions, f \in AllFrames :
             (f.kind \in {"Close", "Error", "End"} /\ SessFrame(s, f, TRUE))
               => (sess[s].st = "running" /\ sess'[s].st = "closing"
                   /\ sess'[s].out = sess[s].out)]_vars
    /\ [][\A s \in Sessions :
             sess'[s].ignored # sess[s].ignored
               => /\ sess'[s].ignored \in {"Text", "Pong"}
                  /\ sess[s].st = "running" /\ sess'[s].st = "running"
                  /\ sess'[s].out = sess[s].out
                  /\ sess'[s].cursor = sess[s].cursor
                  /\ ~sess'[s].off
                  /\ log' = log /\ infoLog' = infoLog]_vars
    /\ [](\A s \in Sessions :
             (sess[s].st = "running" /\ ~sess[s].off
                 /\ sess[s].cursor < Len(log))
               => ENABLED SessRecv(s, TRUE))
    /\ [](\A s \in Sessions : sess[s].st = "closing" => ENABLED SessFinish(s))

\* A session ignored a frame, is live and has delivered both envelopes, while
\* the other session was ended by its peer.
C20_Witness ==
    /\ sess[1].ignored \in {"Text", "Pong"}
    /\ sess[1].st = "running"
    /\ Len(log) = 2 /\ SentIds(1) = <<1, 2>>
    /\ Pongs(1) = 0
    /\ sess[2].st \in {"closing", "finished"}

\* C24 as stated: the only frames a session ever sends are Binary frames, one
\* encoded envelope each, and Pong frames in reply to a client Ping; the only
\* frames the client ever sends are Ping and Close.
C24_OnlyBinaryAndPong ==
    /\ \A s \in Sessions : \A i \in DOMAIN sess[s].out :
          sess[s].out[i].kind \in {"Binary", "Pong"}
    /\ \A i \in DOMAIN written : written[i].kind \in {"Ping", "Close"}

\* C24, amended: the frames a session sends are Binary frames (each one
\* envelope of the bus), Pong frames (each carrying the payload of a Ping the
\* client wrote, and no more of them than the client wrote Pings) and, as the
\* last frame of a session that has finished, one Close; the frames the
\* client sends are Pings and, last, one Close.
C24_FrameKinds ==
    /\ \A s \in Sessions : \A i \in DOMAIN sess[s].out :
          LET f == sess[s].out[i] IN
          /\ f.kind \in {"Binary", "Pong", "Close"}
          /\ f.kind = "Binary" => f.id \in 1..Len(log)
          /\ f.kind = "Pong" =>
                /\ f.payload = PingPayload
                /\ Pongs(s) <= Len(SelectSeq(written, LAMBDA w : w.kind = "Ping"))
          /\ f.kind = "Close" => i = Len(sess[s].out) /\ sess[s].st = "finished"
    /\ \A i \in DOMAIN written :
          /\ written[i].kind \in {"Ping", "Close"}
          /\ written[i].kind = "Ping" => written[i].payload = PingPayload
          /\ written[i].kind = "Close" => i = Len(written) /\ pc = "stopped"

\* A session has sent an envelope, a Pong and then its Close, and the client
\* a Ping and then its Close.
C24_Witness ==
    /\ \E s \in Sessions :
          /\ {sess[s].out[i].kind : i \in DOMAIN sess[s].out} = {"Binary", "Pong", "Close"}
          /\ sess[s].st = "finished"
    /\ written = <<[kind |-> "Ping", payload |-> PingPayload],
                   [kind |-> "Close", payload |-> ""]>>

C26_StoreErrorsChangeNothing ==
    /\ (outcome.op = "add" /\ outcome.name \in DOMAIN outcome.mem) =>
          /\ outcome.result = "exists"
          /\ profiles = outcome.mem
          /\ file = outcome.file
    /\ (outcome.op = "delete" /\ outcome.name \notin DOMAIN outcome.mem) =>
          /\ outcome.result = "missing"
          /\ profiles = outcome.mem
          /\ file = outcome.file
    /\ (outcome.op \in {"add", "delete"} /\ outcome.result = "ok") =>
          /\ file.state = "written"
          /\ Deserialize(file.data) = profiles
          /\ outcome.op = "add" =>
                profiles = MapInsert(outcome.mem, outcome.name, outcome.profile)
          /\ outcome.op = "delete" =>
                profiles = MapRemove(outcome.mem, outcome.name)
    /\ outcome.result = "exists" => outcome.op = "add"
    /\ outcome.result = "missing" => outcome.op = "delete"

\* An add under a name that holds another profile was refused, with a file
\* that holds two profiles.
C26_Witness ==
    /\ outcome.op = "add"
    /\ outcome.result = "exists"
    /\ profiles[outcome.name] # outcome.profile
    /\ file.state = "written"
    /\ Cardinality(file.data) = 2

\* A session's task is over: it has finished, or it was dropped.
Ended(s) == sess[s].st \in {"finished", "dropped"}

\* C21: session lifecycle.  A session has logged "Session started", once,
\* before it sends anything.  A session that has left its loop (on a remote
\* close, a read error, a write error or a failed pong) comes to its end, and
\* so does a session that was live when the server began to stop.  A session
\* that has ended has attempted its Close as its last frame and has then
\* logged "Session finished", once; it sends nothing more.
C21_SessionLifecycle ==
    /\ [](\A s \in Sessions :
            /\ sess[s].st # "none" =>
                  /\ sess[s].events # <<>>
                  /\ sess[s].events[1] = "Session started"
                  /\ Len(SelectSeq(sess[s].events,
                                   LAMBDA e : e = "Session started")) = 1
            /\ sess[s].out # <<>> => sess[s].events # <<>>)
    /\ \A s \in Sessions :
          /\ (sess[s].st = "closing") ~> (sess[s].st = "finished")
          /\ (sess[s].st = "running" /\ server # "running")
                ~> (sess[s].st = "finished")
    /\ [](\A s \in Sessions :
            Ended(s) =>
               /\ sess[s].out # <<>>
               /\ sess[s].out[Len(sess[s].out)].kind = "Close"
               /\ sess[s].events = <<"Session started", "Session finished">>)
    /\ [][\A s \in Sessions : Ended(s) => sess'[s] = sess[s]]_vars

\* The client process is alive: its runtime runs its tasks.
Alive == pc \notin {"stopped", "panicked"}

\* C22: forwards do not block the receive loop.  From the moment an envelope
\* is decoded on, the receive loop is at its select: a shutdown signal it
\* holds, a keep-alive tick that is due and the next frame of its stream are
\* taken without waiting for the envelope's forward, or for the history
\* store, to complete.  The forwards are spawned in the order the envelopes
\* were received, and any of those in flight may be the next to complete.
C22_ForwardsDoNotBlock ==
    /\ (pc \in {"connected", "storing"} /\ rx = "signalled")
          => ENABLED ShutdownRecv
    /\ (pc \in {"connected", "storing"} /\ pingLeft = 0 /\ streamOpen)
          => ENABLED PingTick(TRUE)
    /\ (pc \in {"connected", "storing"} /\ streamOpen)
          => ENABLED RecvClose
    /\ \A i \in DOMAIN tasks : tasks[i].req = InboundEnvelope(i)
    /\ \A i \in DOMAIN tasks :
          (tasks[i].st = "running" /\ Alive)
             => ENABLED ForwardDone(i, TRUE) /\ ENABLED ForwardDone(i, FALSE)

\* C23: a failed forward is not a protocol event.  Every envelope a connected
\* client has decoded has, once its handling is over, one forward task and
\* one only; a forward that has completed or failed is never started again;
\* the step in which a forward completes or fails changes nothing of the
\* connector (it stays connected, with no error in hand and no reconnect wait
\* begun); and with a failed forward behind it the client still takes and
\* forwards the next envelope.
C23_FailedForwardNoEvent ==
    /\ [](pc # "storing" => pending = NoEnvelope)
    /\ [](\A i, j \in DOMAIN tasks : tasks[i].req = tasks[j].req => i = j)
    /\ [][/\ Len(tasks') >= Len(tasks)
           /\ \A i \in DOMAIN tasks :
                 /\ tasks'[i].req = tasks[i].req
                 /\ tasks[i].st # "running" => tasks'[i].st = tasks[i].st]_vars
    /\ [][(\E i \in DOMAIN tasks : tasks'[i].st # tasks[i].st)
             => UNCHANGED <<pc, rx, sigint, sleepLeft, pingLeft, waited,
                            attempts, lastDelay, result, exit, streamOpen,
                            forwards, written, forwarded, pending>>]_vars
    /\ []((/\ \E i \in DOMAIN tasks : tasks[i].st = "failed"
            /\ pc = "connected" /\ streamOpen
            /\ Len(tasks) < MaxForwards)
             => ENABLED ForwardRecv)

====
